---- MODULE Spec2Model ----
(***************************************************************************)
(* Model of optimize_images.py: the single-image optimizer optimize_image  *)
(* and the batch driver main, with the file system they read and write.    *)
(***************************************************************************)
EXTENDS Integers, Sequences, FiniteSets, TLC

(***************************************************************************)
(* Configuration table (images_config, lines 68-104), in insertion order.  *)
(***************************************************************************)
images_config_full ==
  << [filename |-> "Le Dun enhanced Normal.jpg",       max_width |-> 1920, quality |-> 85, category |-> "Main Featured Photo"],
     [filename |-> "Le Dun Stars Light.jpg",           max_width |-> 800,  quality |-> 85, category |-> "Gallery"],
     [filename |-> "Le Dun Stars Red Light.jpg",       max_width |-> 800,  quality |-> 85, category |-> "Gallery"],
     [filename |-> "Northern Lights Swirl Middle.jpg", max_width |-> 800,  quality |-> 85, category |-> "Gallery"],
     [filename |-> "Northern Lights Swirl Right.jpg",  max_width |-> 800,  quality |-> 85, category |-> "Gallery"],
     [filename |-> "Cotton Candy Skies Normal.jpg",    max_width |-> 800,  quality |-> 85, category |-> "Gallery"],
     [filename |-> "Star Burst.jpg",                   max_width |-> 800,  quality |-> 85, category |-> "Gallery"] >>

\* Bound: the model runs the batch over the first NumJobs rows of the table.
NumJobs == 3

images_config == SubSeq(images_config_full, 1, NumJobs)

FileNames == { images_config[i].filename : i \in 1..Len(images_config) }

(***************************************************************************)
(* Python float arithmetic of lines 34-35.  A float is an IEEE-754 binary64 *)
(* value; / and * round to nearest, ties to even, int() truncates.  Values  *)
(* are kept as bit sequences (most significant bit first) so that no        *)
(* intermediate exceeds the range of the model checker's integers.          *)
(***************************************************************************)
\* Precision of a Python float (binary64 significand, hidden bit included).
MantBits == 53

\* Smallest k >= 0 with a * 2^k >= b  (a, b > 0)
RECURSIVE ShiftTo(_, _, _)
ShiftTo(a, b, k) == IF a >= b THEN k ELSE ShiftTo(2 * a, b, k + 1)

\* 2^j mod d, by repeated squaring (d * d stays below 2^31 for d < 46340).
RECURSIVE PowMod2(_, _)
PowMod2(j, d) ==
  IF j = 0 THEN 1 % d
  ELSE LET h == PowMod2(j \div 2, d)
       IN  (((h * h) % d) * (IF j % 2 = 1 THEN 2 ELSE 1)) % d

\* bits + 1, as a bit sequence; a carry out of the top bit lengthens it by one.
IncBits(bits) ==
  LET n  == Len(bits)
      zs == { i \in 1..n : bits[i] = 0 }
  IN  IF zs = {} THEN << 1 >> \o [i \in 1..n |-> 0]
      ELSE LET z == CHOOSE i \in zs : \A j \in zs : j <= i
           IN  [i \in 1..n |-> IF i < z THEN bits[i] ELSE IF i = z THEN 1 ELSE 0]

\* Round to nearest, ties to even: keep is the kept significand, up says the
\* discarded part is more than half a unit, tie that it is exactly half.
RoundBits(keep, up, tie) ==
  IF up \/ (tie /\ keep[Len(keep)] = 1) THEN IncBits(keep) ELSE keep

\* A significand of MantBits + 1 bits (after a carry) is renormalised.
Normalise(bits, exp) ==
  IF Len(bits) > MantBits
  THEN [mant |-> SubSeq(bits, 1, MantBits), exp |-> exp + (Len(bits) - MantBits)]
  ELSE [mant |-> bits, exp |-> exp]

\* a / b for integers a, b > 0 as a float: value = mant * 2^exp.  With the
\* quotient num/den scaled into [1, 2), the remainder after j bits of long
\* division past the leading one is ((num - den) * 2^j) mod den.
FloatDiv(a, b) ==
  LET ka  == ShiftTo(a, b, 0)
      kb  == IF a >= b THEN ShiftTo(b, a + 1, 0) - 1 ELSE 0
      num == a * 2^ka
      den == b * 2^kb
      RemAt(j) == ((num - den) * PowMod2(j, den)) % den
      q   == [i \in 1..MantBits |-> IF i = 1 THEN 1 ELSE (2 * RemAt(i - 2)) \div den]
      r   == RemAt(MantBits - 1)
  IN  Normalise(RoundBits(q, 2 * r > den, 2 * r = den), kb - ka - (MantBits - 1))

\* Bits of a natural number, most significant first (<< >> for 0).
RECURSIVE NatBits(_)
NatBits(n) == IF n = 0 THEN << >> ELSE Append(NatBits(n \div 2), n % 2)

RECURSIVE BitsNat(_)
BitsNat(bits) ==
  IF bits = << >> THEN 0
  ELSE 2 * BitsNat(SubSeq(bits, 1, Len(bits) - 1)) + bits[Len(bits)]

\* Multiplication works on limbs of LimbBits bits so that h * limb + carry
\* stays a small integer.
LimbBits == 13

\* bits, most significant first, padded on the left to exactly n bits
PadBits(bits, n) == [i \in 1..n |-> IF i <= n - Len(bits) THEN 0 ELSE bits[i - (n - Len(bits))]]

\* h * (the number whose bits are the first hi bits of bits), as bits; the
\* recursion takes one limb from the low end at a time.
RECURSIVE MulBits(_, _, _, _)
MulBits(h, bits, hi, carry) ==
  IF hi = 0 THEN NatBits(carry)
  ELSE LET lo   == IF hi > LimbBits THEN hi - LimbBits ELSE 0
           limb == BitsNat(SubSeq(bits, lo + 1, hi))
           prod == h * limb + carry
       IN  MulBits(h, bits, lo, prod \div 2^(hi - lo))
             \o PadBits(NatBits(prod % 2^(hi - lo)), hi - lo)

\* h * f for an integer h > 0 (exactly representable) and a float f.
FloatMul(h, f) ==
  LET p    == MulBits(h, f.mant, Len(f.mant), 0)
      drop == Len(p) - MantBits
  IN  IF drop <= 0 THEN [mant |-> p, exp |-> f.exp]
      ELSE LET keep == SubSeq(p, 1, MantBits)
               rest == SubSeq(p, MantBits + 1, Len(p))
               half == rest[1] = 1
               more == \E i \in 2..Len(rest) : rest[i] = 1
           IN  Normalise(RoundBits(keep, half /\ more, half /\ ~more), f.exp + drop)

\* int(f) for a float 0 <= f < 2^31: truncation toward zero.
FloatToInt(f) ==
  LET n == Len(f.mant) + f.exp
  IN  IF n <= 0 THEN 0
      ELSE IF f.exp >= 0 THEN BitsNat(f.mant) * 2^(f.exp)
      ELSE BitsNat(SubSeq(f.mant, 1, n))

\* Lines 34-35: ratio = max_width / original_width
\*              new_height = int(original_height * ratio)
new_height(original_width, original_height, max_width) ==
  LET ratio == FloatDiv(max_width, original_width)
  IN  FloatToInt(FloatMul(original_height, ratio))

(***************************************************************************)
(* The file system and the imaging library, as far as the script sees them. *)
(***************************************************************************)
\* images_dir = Path("images"), optimized_dir = Path("images_optimized")
images_dir    == "images"
optimized_dir == "images_optimized"
Dirs == { images_dir, optimized_dir }

\* Path(dir) / filename
PathOf(dir, filename) == [dir |-> dir, name |-> filename]

\* What a path holds: nothing, bytes that are no image (corrupt, or the
\* partial output of a failed write), or an image of a mode and a size.
Absent  == [kind |-> "absent",  mode |-> "none", w |-> 0, h |-> 0]
Corrupt == [kind |-> "corrupt", mode |-> "none", w |-> 0, h |-> 0]
Partial == [kind |-> "partial", mode |-> "none", w |-> 0, h |-> 0]
ImageFile(mode, w, h) == [kind |-> "image", mode |-> mode, w |-> w, h |-> h]

\* Pillow modes that carry a transparency channel.
AlphaModes == { "RGBA", "LA", "PA", "RGBa", "La" }
HasAlpha(mode) == mode \in AlphaModes

\* Modes the JPEG encoder of img.save(..., 'JPEG') accepts; any other mode
\* raises OSError("cannot write mode ... as JPEG").
JpegModes == { "1", "L", "RGB", "RGBX", "CMYK", "YCbCr" }

\* Environment faults of one input file, fixed for the life of the file
\* system: "decode" (the header reads but the pixel data does not load),
\* "stat_in" / "stat_out" (os.path.getsize fails on the input / the output),
\* "open_out" (the output path cannot be opened for writing), "encode" (the
\* encoder fails while writing, e.g. the disk is full).
Faults == { "none", "decode", "stat_in", "open_out", "encode", "stat_out" }

\* One line of console output.
Msg(tag, text, a, b) == [tag |-> tag, text |-> text, a |-> a, b |-> b]

VARIABLES
  pil,             \* the import of PIL succeeds (line 7)
  dirs,            \* per directory: "absent", "dir", or "file" (a non-directory)
  fs,              \* per directory and file name: what the path holds
  fault,           \* per file name: the environment fault of that job
  removes_created, \* the library deletes an output it created when the save fails
  heights,         \* the value lines 34-35 compute, per (width, height, max_width)
  pc,              \* position in the script
  run,             \* 1 for the first invocation of the script, 2 for the second
  idx,             \* position of the for loop in images_config (line 123)
  success_count,   \* line 120
  console,         \* what has been printed, in order
  exit_status,     \* "running", then the process status "0" or "1"
  arg,             \* arguments of the current optimize_image call
  img,             \* the local img of optimize_image
  err,             \* the exception raised in the try block, "none" if none
  ret,             \* return value of optimize_image: "True", "False", "none" before
  steps,           \* history: statements of the try block completed in this call
  skipped_count,   \* history: jobs that took the continue of line 133
  failed_count,    \* history: jobs for which optimize_image returned False
  visited,         \* history: file names for which "Processing:" was printed
  called,          \* history: file names passed to optimize_image
  writes,          \* history: per path, how often save opened it in this run
  succeeded,       \* history: file names counted in success_count
  start,           \* history: dirs and fs when the current run began
  prev             \* history: result of the first run, once a second has begun

env   == << pil, fault, removes_created, heights >>
disk  == << dirs, fs >>
frame == << arg, img, err, ret, steps >>
loopv == << idx, success_count, skipped_count, failed_count, visited, called, succeeded >>
hist  == << run, start, prev >>
vars  == << pil, dirs, fs, fault, removes_created, heights, pc, run, idx, success_count,
            console, exit_status, arg, img, err, ret, steps, skipped_count,
            failed_count, visited, called, writes, succeeded, start, prev >>

NoArg == [input_path |-> PathOf("none", "none"), output_path |-> PathOf("none", "none"),
          max_width |-> 0, quality |-> 0]

At(path)   == fs[path.dir][path.name]
Put(path, content) == [fs EXCEPT ![path.dir][path.name] = content]

\* except Exception as e (line 55): control moves to the handler.
Raise(e) ==
  /\ err' = e
  /\ pc' = "except"

\* The statement at this position completed; control moves on.
Goto(here, there) ==
  /\ steps' = steps \cup { here }
  /\ pc' = there

(***************************************************************************)
(* optimize_image(input_path, output_path, max_width, quality), lines 11-57 *)
(***************************************************************************)
\* Line 23: img = Image.open(input_path).  Only the header is read.
Open ==
  /\ pc = "open"
  /\ LET f == At(arg.input_path)
     IN  IF dirs[arg.input_path.dir] # "dir" \/ f.kind = "absent"
         THEN Raise("FileNotFoundError") /\ UNCHANGED << img, steps >>
         ELSE IF f.kind # "image"
         THEN Raise("UnidentifiedImageError") /\ UNCHANGED << img, steps >>
         ELSE /\ img' = [mode |-> f.mode, w |-> f.w, h |-> f.h]
              /\ Goto("open", "convert")
              /\ UNCHANGED err
  /\ UNCHANGED << env, disk, hist, loopv, console, exit_status, arg, ret, writes >>

\* Convert with the conversion left out.
ConvertNothing ==
  /\ pc = "convert"
  /\ Goto("convert", "resize")
  /\ UNCHANGED << img, err >>
  /\ UNCHANGED << env, disk, hist, loopv, console, exit_status, arg, ret, writes >>

\* Lines 26-27: if img.mode == 'RGBA': img = img.convert('RGB')
Convert ==
  /\ pc = "convert"
  /\ IF img.mode = "RGBA"
     THEN IF fault[arg.input_path.name] = "decode"
          THEN Raise("OSError") /\ UNCHANGED << img, steps >>
          ELSE /\ img' = [img EXCEPT !.mode = "RGB"]
               /\ Goto("convert", "resize")
               /\ UNCHANGED err
     ELSE Goto("convert", "resize") /\ UNCHANGED << img, err >>
  /\ UNCHANGED << env, disk, hist, loopv, console, exit_status, arg, ret, writes >>

\* Lines 30-39: the resize branch and its message.
Resize ==
  /\ pc = "resize"
  /\ LET original_width  == img.w
         original_height == img.h
         nh == heights[<< original_width, original_height, arg.max_width >>]
     IN  IF original_width > arg.max_width
         THEN IF fault[arg.input_path.name] = "decode"
              THEN Raise("OSError") /\ UNCHANGED << img, steps, console >>
              ELSE IF nh < 1
              THEN Raise("ValueError") /\ UNCHANGED << img, steps, console >>
              ELSE /\ img' = [img EXCEPT !.w = arg.max_width, !.h = nh]
                   /\ console' = Append(console, Msg("Resized", "", arg.max_width, nh))
                   /\ Goto("resize", "size_before")
                   /\ UNCHANGED err
         ELSE /\ console' = Append(console, Msg("No resize needed", "", original_width, 0))
              /\ Goto("resize", "size_before")
              /\ UNCHANGED << img, err >>
  /\ UNCHANGED << env, disk, hist, loopv, exit_status, arg, ret, writes >>

\* Line 42: original_size = os.path.getsize(input_path) / 1024
SizeBefore ==
  /\ pc = "size_before"
  /\ IF fault[arg.input_path.name] = "stat_in"
     THEN Raise("OSError") /\ UNCHANGED steps
     ELSE Goto("size_before", "save") /\ UNCHANGED err
  /\ UNCHANGED << env, disk, hist, loopv, console, exit_status, arg, img, ret, writes >>

\* Save with the image written over input_path instead of output_path.
SaveOverInput ==
  /\ pc = "save"
  /\ LET out == arg.input_path
     IN  IF img.mode \notin JpegModes
         THEN /\ Raise("OSError")
              /\ fs' = Put(out, Partial)
              /\ writes' = [writes EXCEPT ![out] = @ + 1]
              /\ UNCHANGED steps
         ELSE /\ fs' = Put(out, ImageFile(img.mode, img.w, img.h))
              /\ writes' = [writes EXCEPT ![out] = @ + 1]
              /\ Goto("save", "size_after")
              /\ UNCHANGED err
  /\ UNCHANGED << env, dirs, hist, loopv, console, exit_status, arg, img, ret >>

\* Line 45: img.save(output_path, 'JPEG', quality=quality, optimize=True).
\* The library loads the pixel data, opens the path for writing (creating or
\* truncating the file) and runs the encoder; when the encoder raises, a file
\* the call created is removed by libraries that clean up, and the truncated
\* file is left otherwise.
Save ==
  /\ pc = "save"
  /\ LET out     == arg.output_path
         flt     == fault[arg.input_path.name]
         created == At(out).kind = "absent"
     IN  IF flt = "decode"
         THEN Raise("OSError") /\ UNCHANGED << fs, writes, steps >>
         ELSE IF dirs[out.dir] # "dir"
         THEN Raise("FileNotFoundError") /\ UNCHANGED << fs, writes, steps >>
         ELSE IF flt = "open_out"
         THEN Raise("PermissionError") /\ UNCHANGED << fs, writes, steps >>
         ELSE IF img.mode \notin JpegModes \/ flt = "encode"
         THEN /\ Raise("OSError")
              /\ fs' = Put(out, IF created /\ removes_created THEN Absent ELSE Partial)
              /\ writes' = [writes EXCEPT ![out] = @ + 1]
              /\ UNCHANGED steps
         ELSE /\ fs' = Put(out, ImageFile(img.mode, img.w, img.h))
              /\ writes' = [writes EXCEPT ![out] = @ + 1]
              /\ Goto("save", "size_after")
              /\ UNCHANGED err
  /\ UNCHANGED << env, dirs, hist, loopv, console, exit_status, arg, img, ret >>

\* Lines 48-53: the size of the output, the size line, return True.
SizeAfter ==
  /\ pc = "size_after"
  /\ IF fault[arg.input_path.name] = "stat_out"
     THEN Raise("OSError") /\ UNCHANGED << steps, console, ret >>
     ELSE /\ console' = Append(console, Msg("Size", "", 0, 0))
          /\ ret' = "True"
          /\ Goto("size_after", "returned")
          /\ UNCHANGED err
  /\ UNCHANGED << env, disk, hist, loopv, exit_status, arg, img, writes >>

\* Except with the handler narrowed to "except OSError": a ValueError leaves
\* the function.
ExceptOSErrorOnly ==
  /\ pc = "except"
  /\ IF err = "ValueError"
     THEN /\ console' = Append(console, Msg("Traceback", err, 0, 0))
          /\ pc' = "exit"
          /\ UNCHANGED ret
     ELSE /\ console' = Append(console, Msg("Error", err, 0, 0))
          /\ ret' = "False"
          /\ pc' = "returned"
  /\ UNCHANGED << env, disk, hist, loopv, exit_status, arg, img, err, steps, writes >>

\* Lines 55-57: except Exception as e: print the error, return False.
Except ==
  /\ pc = "except"
  /\ console' = Append(console, Msg("Error", err, 0, 0))
  /\ ret' = "False"
  /\ pc' = "returned"
  /\ UNCHANGED << env, disk, hist, loopv, exit_status, arg, img, err, steps, writes >>

optimize_image == Open \/ Convert \/ Resize \/ SizeBefore \/ Save \/ SizeAfter \/ Except

TrySteps == { "open", "convert", "resize", "size_before", "save", "size_after" }

(***************************************************************************)
(* The script: the module-level import, the __main__ block and main().      *)
(***************************************************************************)
Paths == { PathOf(d, n) : d \in Dirs, n \in FileNames }

NoImg == [mode |-> "none", w |-> 0, h |-> 0]

\* An uncaught exception: the interpreter prints a traceback and exits 1.
Uncaught(e) ==
  /\ console' = Append(console, Msg("Traceback", e, 0, 0))
  /\ exit_status' = "1"
  /\ pc' = "exit"

\* Line 7: from PIL import Image, executed when the module loads.
ModuleImport ==
  /\ pc = "import"
  /\ IF pil
     THEN pc' = "guard" /\ UNCHANGED << console, exit_status >>
     ELSE Uncaught("ModuleNotFoundError")
  /\ UNCHANGED << env, disk, hist, loopv, frame, writes >>

\* Lines 162-173: the __main__ block checks the import again, then calls main.
MainGuard ==
  /\ pc = "guard"
  /\ IF pil
     THEN pc' = "main" /\ UNCHANGED << console, exit_status >>
     ELSE /\ console' = Append(console, Msg("Pillow library not installed", "", 0, 0))
          /\ exit_status' = "1"
          /\ pc' = "exit"
  /\ UNCHANGED << env, disk, hist, loopv, frame, writes >>

\* CheckInputDir with the output directory made before the check.
CheckInputDirAfterMkdir ==
  /\ pc = "main"
  /\ dirs' = [dirs EXCEPT ![optimized_dir] = IF @ = "absent" THEN "dir" ELSE @]
  /\ IF dirs[images_dir] = "absent"
     THEN /\ console' = console \o << Msg("Banner", "", 0, 0),
                                      Msg("'images' directory not found", "", 0, 0) >>
          /\ exit_status' = "0"
          /\ pc' = "exit"
     ELSE /\ console' = Append(console, Msg("Banner", "", 0, 0))
          /\ pc' = "mkdir"
          /\ UNCHANGED exit_status
  /\ UNCHANGED << env, fs, hist, loopv, frame, writes >>

\* Lines 62-111: the banner and the check for the images directory.
CheckInputDir ==
  /\ pc = "main"
  /\ IF dirs[images_dir] = "absent"
     THEN /\ console' = console \o << Msg("Banner", "", 0, 0),
                                      Msg("'images' directory not found", "", 0, 0) >>
          /\ exit_status' = "0"
          /\ pc' = "exit"
     ELSE /\ console' = Append(console, Msg("Banner", "", 0, 0))
          /\ pc' = "mkdir"
          /\ UNCHANGED exit_status
  /\ UNCHANGED << env, disk, hist, loopv, frame, writes >>

\* MkDir as optimized_dir.mkdir(): any existing path raises FileExistsError.
MkDirNotExistOk ==
  /\ pc = "mkdir"
  /\ IF dirs[optimized_dir] # "absent"
     THEN /\ console' = Append(console, Msg("Traceback", "FileExistsError", 0, 0))
          /\ exit_status' = "1"
          /\ pc' = "exit"
          /\ UNCHANGED << dirs, idx, success_count >>
     ELSE /\ dirs' = [dirs EXCEPT ![optimized_dir] = "dir"]
          /\ console' = Append(console, Msg("Output directory", optimized_dir, 0, 0))
          /\ success_count' = 0
          /\ idx' = 1
          /\ pc' = "loop"
          /\ UNCHANGED exit_status
  /\ UNCHANGED << env, fs, hist, frame, writes,
                  skipped_count, failed_count, visited, called, succeeded >>

\* Lines 114-121: optimized_dir.mkdir(exist_ok=True), which raises
\* FileExistsError when the path exists and is not a directory; then the
\* counters of the loop.
MkDir ==
  /\ pc = "mkdir"
  /\ IF dirs[optimized_dir] = "file"
     THEN Uncaught("FileExistsError") /\ UNCHANGED << dirs, idx, success_count >>
     ELSE /\ dirs' = [dirs EXCEPT ![optimized_dir] = "dir"]
          /\ console' = Append(console, Msg("Output directory", optimized_dir, 0, 0))
          /\ success_count' = 0
          /\ idx' = 1
          /\ pc' = "loop"
          /\ UNCHANGED exit_status
  /\ UNCHANGED << env, fs, hist, frame, writes,
                  skipped_count, failed_count, visited, called, succeeded >>

\* JobStart without the test of line 130: optimize_image is called for every
\* job.
JobStartNoExistsCheck ==
  /\ pc = "loop"
  /\ idx <= Len(images_config)
  /\ LET filename == images_config[idx].filename
         config   == images_config[idx]
     IN  /\ visited' = Append(visited, filename)
         /\ console' = console \o << Msg("Processing", filename, 0, 0),
                                     Msg("Category", config.category, 0, 0) >>
         /\ arg' = [input_path |-> PathOf(images_dir, filename),
                    output_path |-> PathOf(optimized_dir, filename),
                    max_width |-> config.max_width, quality |-> config.quality]
         /\ img' = [mode |-> "none", w |-> 0, h |-> 0]
         /\ err' = "none"
         /\ ret' = "none"
         /\ steps' = {}
         /\ called' = Append(called, filename)
         /\ pc' = "open"
  /\ UNCHANGED << env, disk, hist, exit_status, writes, success_count, failed_count,
                  succeeded, skipped_count, idx >>

\* Lines 123-140: one job of the for loop, up to the continue of line 133 or
\* the call of optimize_image.
JobStart ==
  /\ pc = "loop"
  /\ idx <= Len(images_config)
  /\ LET filename    == images_config[idx].filename
         config      == images_config[idx]
         input_path  == PathOf(images_dir, filename)
         output_path == PathOf(optimized_dir, filename)
         head        == << Msg("Processing", filename, 0, 0),
                           Msg("Category", config.category, 0, 0) >>
     IN  /\ visited' = Append(visited, filename)
         /\ IF At(input_path).kind = "absent"
            THEN /\ console' = console \o head \o << Msg("Warning: File not found, skipping", filename, 0, 0) >>
                 /\ skipped_count' = skipped_count + 1
                 /\ idx' = idx + 1
                 /\ UNCHANGED << pc, frame, called >>
            ELSE /\ console' = console \o head
                 /\ arg' = [input_path |-> input_path, output_path |-> output_path,
                            max_width |-> config.max_width, quality |-> config.quality]
                 /\ img' = NoImg
                 /\ err' = "none"
                 /\ ret' = "none"
                 /\ steps' = {}
                 /\ called' = Append(called, filename)
                 /\ pc' = "open"
                 /\ UNCHANGED << skipped_count, idx >>
  /\ UNCHANGED << env, disk, hist, exit_status, writes, success_count, failed_count, succeeded >>

\* JobEnd with a break out of the loop when optimize_image returned False.
JobEndBreakOnFailure ==
  /\ pc = "returned"
  /\ IF ret = "True"
     THEN /\ success_count' = success_count + 1
          /\ succeeded' = succeeded \cup { arg.input_path.name }
          /\ console' = Append(console, Msg("Success", "", 0, 0))
          /\ idx' = idx + 1
          /\ UNCHANGED failed_count
     ELSE /\ failed_count' = failed_count + 1
          /\ idx' = Len(images_config) + 1
          /\ UNCHANGED << success_count, succeeded, console >>
  /\ pc' = "loop"
  /\ UNCHANGED << env, disk, hist, frame, exit_status, writes, skipped_count, visited, called >>

\* Lines 135-144: the result of optimize_image is counted.
JobEnd ==
  /\ pc = "returned"
  /\ IF ret = "True"
     THEN /\ success_count' = success_count + 1
          /\ succeeded' = succeeded \cup { arg.input_path.name }
          /\ console' = Append(console, Msg("Success", "", 0, 0))
          /\ UNCHANGED failed_count
     ELSE /\ failed_count' = failed_count + 1
          /\ UNCHANGED << success_count, succeeded, console >>
  /\ idx' = idx + 1
  /\ pc' = "loop"
  /\ UNCHANGED << env, disk, hist, frame, exit_status, writes, skipped_count, visited, called >>

\* total_count as the number of input files found rather than the number of
\* configured jobs.
total_count_found == Cardinality({ n \in FileNames : fs[images_dir][n].kind # "absent" })

\* total_count = len(images_config), line 121
total_count == Len(images_config)

\* Lines 146-160: the summary; main returns and the process exits 0.
Summary ==
  /\ pc = "loop"
  /\ idx > Len(images_config)
  /\ console' = Append(console, Msg("Optimization Complete", "", success_count, total_count))
  /\ exit_status' = "0"
  /\ pc' = "exit"
  /\ UNCHANGED << env, disk, hist, loopv, frame, writes >>

main == CheckInputDir \/ MkDir \/ JobStart \/ JobEnd \/ Summary

\* The script is invoked a second time on the file system the first run left.
Rerun ==
  /\ pc = "exit"
  /\ run = 1
  /\ run' = 2
  /\ prev' = [fs |-> fs, dirs |-> dirs, success_count |-> success_count,
              exit_status |-> exit_status, console |-> console]
  /\ start' = [fs |-> fs, dirs |-> dirs]
  /\ pc' = "import"
  /\ console' = << >>
  /\ exit_status' = "running"
  /\ idx' = 0
  /\ success_count' = 0
  /\ skipped_count' = 0
  /\ failed_count' = 0
  /\ visited' = << >>
  /\ called' = << >>
  /\ succeeded' = {}
  /\ writes' = [p \in Paths |-> 0]
  /\ arg' = NoArg
  /\ img' = NoImg
  /\ err' = "none"
  /\ ret' = "none"
  /\ steps' = {}
  /\ UNCHANGED << env, disk >>

(***************************************************************************)
(* Initial states.                                                         *)
(***************************************************************************)
\* Every max_width of the configuration table, and a narrow one.
MaxWidths == { images_config_full[i].max_width : i \in 1..Len(images_config_full) } \cup { 3 }

\* The arithmetic of lines 34-35 depends on nothing but its operands: its
\* results for the images on disk are worked out once and looked up by Resize.
HeightsFor(files) ==
  [t \in { << files[n].w, files[n].h, m >> :
             n \in { k \in FileNames : files[k].kind = "image" }, m \in MaxWidths }
     |-> new_height(t[1], t[2], t[3])]

\* State of a process that has not started, on a given file system.
Fresh(d, f) ==
  /\ dirs = d
  /\ fs = f
  /\ heights = HeightsFor(f[images_dir])
  /\ run = 1
  /\ idx = 0
  /\ success_count = 0
  /\ skipped_count = 0
  /\ failed_count = 0
  /\ console = << >>
  /\ exit_status = "running"
  /\ img = NoImg
  /\ err = "none"
  /\ ret = "none"
  /\ steps = {}
  /\ visited = << >>
  /\ called = << >>
  /\ succeeded = {}
  /\ writes = [p \in Paths |-> 0]
  /\ start = [fs |-> f, dirs |-> d]
  /\ prev = [fs |-> f, dirs |-> d, success_count |-> 0,
             exit_status |-> "running", console |-> << >>]

NoFiles == [n \in FileNames |-> Absent]
NoFaultMap == [n \in FileNames |-> "none"]

\* Input files of the batch runs.
BatchModes  == { "RGBA", "LA" }
BatchFiles  == { Absent, Corrupt } \cup { ImageFile(m, 4000, 3000) : m \in BatchModes }
BatchFaults == { "none", "stat_out" }

\* The script is started in a working directory: with or without PIL, with or
\* without images/, with images_optimized absent, an empty directory or a
\* file of that name.
Init ==
  /\ pil \in BOOLEAN
  /\ removes_created \in BOOLEAN
  /\ \E din \in { "absent", "dir" }, dout \in { "absent", "dir", "file" } :
       \E files \in [FileNames -> BatchFiles] :
         /\ din = "absent" => files = NoFiles
         /\ Fresh([d \in Dirs |-> IF d = images_dir THEN din ELSE dout],
                  [d \in Dirs |-> IF d = images_dir THEN files ELSE NoFiles])
  /\ fault \in [FileNames -> BatchFaults]
  /\ \A n \in FileNames : fs[images_dir][n].kind # "image" => fault[n] = "none"
  /\ arg = NoArg
  /\ pc = "import"

Next == ModuleImport \/ MainGuard \/ main \/ optimize_image \/ Rerun

Spec == Init /\ [][Next]_vars

\* The interpreter runs the script statement by statement: a started process
\* always takes its next step.  (Whether there is a second run is up to the
\* user.)
FairSpec == Spec /\ WF_vars(ModuleImport \/ MainGuard \/ main \/ optimize_image)

(***************************************************************************)
(* optimize_image on its own: one call on one input.                       *)
(***************************************************************************)
CallModes     == { "RGB", "L", "RGBA", "LA", "P" }
CallWidths    == { 600, 800, 928, 2148, 4000 }
CallHeights   == { 1, 145, 400, 537, 3000 }
CallFiles     == { Absent, Corrupt } \cup
                 { ImageFile(m, w, h) : m \in CallModes, w \in CallWidths, h \in CallHeights }
StaleOutput   == ImageFile("RGB", 800, 600)

CallInit ==
  /\ pil = TRUE
  /\ removes_created \in BOOLEAN
  /\ \E n \in { images_config[1].filename } :
       /\ \E f \in CallFiles, o \in { Absent, StaleOutput }, dout \in { "absent", "dir" } :
            /\ dout = "absent" => o = Absent
            /\ Fresh([d \in Dirs |-> IF d = images_dir THEN "dir" ELSE dout],
                     [d \in Dirs |-> [NoFiles EXCEPT ![n] = IF d = images_dir THEN f ELSE o]])
       /\ \E mw \in MaxWidths :
            arg = [input_path |-> PathOf(images_dir, n), output_path |-> PathOf(optimized_dir, n),
                   max_width |-> mw, quality |-> 85]
       /\ fault \in { [NoFaultMap EXCEPT ![n] = x] : x \in Faults }
       /\ fs[images_dir][n].kind # "image" => fault[n] = "none"
  /\ pc = "open"

CallSpec == CallInit /\ [][optimize_image]_vars

(***************************************************************************)
(* Properties.                                                             *)
(***************************************************************************)
Last(q) == q[Len(q)]
Printed(tag) == \E i \in 1..Len(console) : console[i].tag = tag
SummaryPrinted == console # << >> /\ Last(console).tag = "Optimization Complete"
ConfigOrder == [i \in 1..Len(images_config) |-> images_config[i].filename]
InCall == pc \in { "open", "convert", "resize", "size_before", "save", "size_after",
                   "except", "returned" }
\* The input of the current call as it was when the run began.
Source == start.fs[arg.input_path.dir][arg.input_path.name]
Min(a, b) == IF a <= b THEN a ELSE b

\* The inputs the contract names as failures: an unreadable or corrupt file,
\* pixel data that does not load, a mode the encoder does not take, a resize
\* to a zero height, a failed write, a failed size query.
MustFail ==
  \/ Source.kind # "image"
  \/ fault[arg.input_path.name] # "none"
  \/ (IF Source.mode = "RGBA" THEN "RGB" ELSE Source.mode) \notin JpegModes
  \/ Source.w > arg.max_width /\ new_height(Source.w, Source.h, arg.max_width) = 0
  \/ dirs[arg.output_path.dir] # "dir"

\* C1: optimize_image never lets an exception escape: control stays in the
\* function until it returns, a call in which any statement of the try block
\* raised (and every call on an input that must fail) returns False, and it
\* returns True only when every statement of the try block completed.
C1_NoExceptionEscapes ==
  /\ InCall
  /\ pc = "returned" =>
       /\ ret \in { "True", "False" }
       /\ err # "none" => ret = "False"
       /\ MustFail => ret = "False"
       /\ ret = "True" <=> steps = TrySteps
  /\ pc # "returned" => ret = "none"

\* C1 witness: a resize to a zero height raised ValueError, which was caught.
C1_Witness ==
  /\ pc = "returned" /\ err = "ValueError" /\ ret = "False"
  /\ Last(console) = Msg("Error", "ValueError", 0, 0)

\* C4: whenever optimize_image returns True the written image has width
\* min(w, m), height h when w <= m, and the exact floor of h * m / w otherwise.
C4_ExactFloorHeight ==
  (pc = "returned" /\ ret = "True") =>
    LET o == At(arg.output_path)
    IN  /\ o.kind = "image"
        /\ o.w = Min(Source.w, arg.max_width)
        /\ o.h = IF Source.w <= arg.max_width THEN Source.h
                 ELSE (Source.h * arg.max_width) \div Source.w

\* C5 as stated: every source whose mode carries a transparency channel
\* reaches the encoder flattened to a mode without one, and every output
\* written has a mode without a transparency channel.
C5_AnyAlphaFlattened ==
  /\ (pc = "save" /\ HasAlpha(Source.mode)) => ~HasAlpha(img.mode)
  /\ (writes[arg.output_path] > 0 /\ At(arg.output_path).kind = "image") =>
       ~HasAlpha(At(arg.output_path).mode)

\* C5 as amended: only the RGBA mode is flattened (to RGB); every other mode
\* reaches the encoder unchanged, a source in another mode with alpha makes
\* the call return False with no image written, and so every image written
\* has a mode without a transparency channel.
C5_OnlyRGBAFlattened ==
  /\ pc \in { "resize", "size_before", "save", "size_after" } =>
       img.mode = IF Source.mode = "RGBA" THEN "RGB" ELSE Source.mode
  /\ (pc = "returned" /\ HasAlpha(Source.mode) /\ Source.mode # "RGBA") =>
       /\ ret = "False"
       /\ At(arg.output_path).kind = "image" => writes[arg.output_path] = 0
  /\ (writes[arg.output_path] > 0 /\ At(arg.output_path).kind = "image") =>
       ~HasAlpha(At(arg.output_path).mode)

\* C5 witness: an RGBA source was written as an RGB image.
C5_Witness ==
  /\ pc = "returned" /\ ret = "True" /\ Source.mode = "RGBA"
  /\ At(arg.output_path).mode = "RGB"

\* Statements still to run before the summary is printed: the jobs not yet
\* begun, and the rest of the current one.
InLoop == pc = "loop" \/ InCall
Remaining ==
  IF ~InLoop THEN 0
  ELSE 10 * (Len(images_config) + 1 - idx) +
       (CASE pc = "loop" -> 9 [] pc = "open" -> 8 [] pc = "convert" -> 7
          [] pc = "resize" -> 6 [] pc = "size_before" -> 5 [] pc = "save" -> 4
          [] pc = "size_after" -> 3 [] pc = "except" -> 2 [] pc = "returned" -> 1)

\* C2: once the loop is entered, the jobs are visited in the order of
\* images_config, each once (the visited names are always the prefix of the
\* table up to the loop position), whatever earlier jobs did; every step of
\* the loop can be taken and brings the summary nearer, the loop is left
\* only by printing the summary with every job visited, and a run that
\* enters the loop always reaches the summary.
C2_OnePassInOrder ==
  /\ [](pc = "loop" => visited = SubSeq(ConfigOrder, 1, idx - 1))
  /\ [](InCall => visited = SubSeq(ConfigOrder, 1, idx))
  /\ [](Len(called) + skipped_count = Len(visited))
  /\ [](SummaryPrinted => visited = ConfigOrder)
  /\ [](InLoop => ENABLED (main \/ optimize_image))
  /\ [][InLoop => (Remaining' < Remaining /\ (InLoop' \/ SummaryPrinted'))]_vars
  /\ (pc = "loop" ~> SummaryPrinted)

\* C2 witness: the summary was reached after a skipped and a failed job.
C2_Witness ==
  /\ SummaryPrinted /\ skipped_count > 0 /\ failed_count > 0
  /\ fs[images_dir][ConfigOrder[1]].kind # "image"
  /\ visited = ConfigOrder

\* C3: at the summary success + skipped + failed is the size of the
\* configuration table, skipped is the number of absent inputs, the summary
\* line reports success_count out of the size of the table, and
\* success_count never exceeds the number of jobs visited.
C3_CounterInvariant ==
  /\ success_count <= Len(visited)
  /\ SummaryPrinted =>
       /\ success_count + skipped_count + failed_count = Len(images_config)
       /\ skipped_count = Cardinality({ n \in FileNames : fs[images_dir][n].kind = "absent" })
       /\ failed_count = Len(called) - success_count
       /\ Last(console) = Msg("Optimization Complete", "", success_count, Len(images_config))

\* C3 witness: a summary with a success, a skip and a failure.
C3_Witness ==
  SummaryPrinted /\ success_count > 0 /\ skipped_count > 0 /\ failed_count > 0

\* C6: a job whose input file is absent prints the warning, calls
\* optimize_image for nothing, writes nothing, leaves success_count alone and
\* moves the loop to the next job.
C6_MissingInputSkipped ==
  [][ ( /\ pc = "loop"
        /\ idx <= Len(images_config)
        /\ fs[images_dir][ConfigOrder[idx]].kind = "absent" )
      => ( /\ Last(console') = Msg("Warning: File not found, skipping", ConfigOrder[idx], 0, 0)
           /\ called' = called
           /\ fs' = fs
           /\ writes' = writes
           /\ success_count' = success_count
           /\ pc' = "loop"
           /\ idx' = idx + 1 ) ]_vars

\* C6 witness: the loop has just skipped an absent input and goes on.
C6_Witness ==
  /\ pc = "loop" /\ skipped_count > 0 /\ idx <= Len(images_config)
  /\ Last(console).tag = "Warning: File not found, skipping"

\* C7: without the images directory main returns right after the error:
\* nothing is created or written, no job is visited, and only the banner and
\* the error are printed.
C7_NoInputDir ==
  (pil /\ dirs[images_dir] = "absent" /\ pc \notin { "import", "guard", "main" }) =>
    /\ pc = "exit"
    /\ exit_status = "0"
    /\ console = << Msg("Banner", "", 0, 0), Msg("'images' directory not found", "", 0, 0) >>
    /\ dirs = start.dirs
    /\ fs = start.fs
    /\ visited = << >>
    /\ called = << >>
    /\ \A p \in Paths : writes[p] = 0

\* C7 witness: main has returned for want of the images directory.
C7_Witness ==
  /\ pc = "exit" /\ pil /\ dirs[images_dir] = "absent"
  /\ dirs[optimized_dir] = "absent"

\* C8: the process exits non-zero only when the imaging dependency is
\* missing, and then the missing-dependency message is printed; every other
\* run exits 0 with no exception out of main.
C8_ExitStatus ==
  pc = "exit" =>
    /\ exit_status = "1" => ~pil
    /\ ~pil => (exit_status = "1" /\ Printed("Pillow library not installed"))
    /\ pil => (exit_status = "0" /\ ~Printed("Traceback"))

\* C9: a second run on the file system the first run left ends as the first
\* did: the output directory is reused, every path holds what it held after
\* the first run, and the same success_count is reported.
C9_SecondRunSame ==
  /\ (run = 2 /\ pc = "loop") => dirs[optimized_dir] = "dir"
  /\ (run = 2 /\ pc = "exit") =>
       /\ dirs = prev.dirs
       /\ fs = prev.fs
       /\ success_count = prev.success_count
       /\ exit_status = prev.exit_status
       /\ Last(console) = Last(prev.console)

\* C9 witness: the second run ended on outputs the first run wrote, one of
\* them the leftover of a failed save.
C9_Witness ==
  /\ run = 2 /\ pc = "exit" /\ SummaryPrinted /\ success_count > 0
  /\ start.dirs[optimized_dir] = "dir"
  /\ \E n \in FileNames : start.fs[optimized_dir][n].kind = "partial"

\* C10: in a run nothing under images/ changes, the only changes are the
\* creation of images_optimized and writes to images_optimized/<filename> of
\* jobs that were called, each path is written at most once, and at the end
\* every job counted in success_count has its output image.
C10_Frame ==
  /\ fs[images_dir] = start.fs[images_dir]
  /\ dirs[images_dir] = start.dirs[images_dir]
  /\ dirs[optimized_dir] # start.dirs[optimized_dir] =>
       (start.dirs[optimized_dir] = "absent" /\ dirs[optimized_dir] = "dir")
  /\ \A p \in Paths :
       /\ writes[p] <= 1
       /\ writes[p] > 0 =>
            (p.dir = optimized_dir /\ \E i \in 1..Len(called) : called[i] = p.name)
       /\ fs[p.dir][p.name] # start.fs[p.dir][p.name] => writes[p] > 0
  /\ Cardinality(succeeded) = success_count
  /\ pc = "exit" => \A n \in succeeded : fs[optimized_dir][n].kind = "image"

\* C10 witness: a run ended with one output written and one save failed.
C10_Witness ==
  /\ pc = "exit" /\ succeeded # {}
  /\ \E n \in FileNames : writes[PathOf(optimized_dir, n)] = 1 /\ n \notin succeeded

====
